---------------------------- MODULE Spec2Model ----------------------------
(***************************************************************************)
(* A model of hugegraph_llm.indices.vector_index.VectorIndex: a faiss      *)
(* IndexFlatL2 (dimension d, stored vectors xb) beside a Python list of    *)
(* properties, with add, search, to_index_file and from_index_file.        *)
(*                                                                         *)
(* The faiss and numpy calls are modelled by what the library does at the  *)
(* call sites of vector_index.py:                                          *)
(*   - IndexFlatL2.add(x) unpacks n, d = x.shape and asserts d == self.d   *)
(*     before it appends the n rows;                                       *)
(*   - IndexFlatL2.search(x, k) asserts d == self.d and k > 0 and returns  *)
(*     k labels per query: the positions (0-based) of the stored vectors   *)
(*     by ascending squared L2 distance, filled with -1 when the index     *)
(*     holds fewer than k vectors;                                         *)
(*   - a Python list indexed by -1 yields its last element, and raises     *)
(*     IndexError outside -len .. len-1.                                   *)
(***************************************************************************)
EXTENDS Integers, Sequences, FiniteSets, TLC

\* ------------------------------------------------------------------ bounds

\* embed_dim, the dimension the index is constructed with.
Dim == 2

\* The most entries the index is let grow to (and so the longest batch).
MaxN == 2

\* The largest top_k a search is called with.
MaxTopK == 2

\* Property payloads, and the marker a caller writes into an object it
\* mutates.
PropVals == {"A", "B"}

Mutated == "M"

\* ----------------------------------------------------------------- helpers

SeqsUpTo(S, n) == UNION {[1..m -> S] : m \in 0..n}

\* Vectors of the index's dimension (the unit vectors and the origin), and
\* two of a wrong one.
UnitVecs == {[i \in 1..Dim |-> IF i = j THEN 1 ELSE 0] : j \in 1..Dim}

Vecs == UnitVecs \cup {[i \in 1..Dim |-> 0]}

BadVecs == {[i \in 1..(Dim - 1) |-> 0], [i \in 1..(Dim + 1) |-> 0]}

RECURSIVE SumSq(_, _, _)
SumSq(x, y, i) ==
    IF i = 0 THEN 0
    ELSE (x[i] - y[i]) * (x[i] - y[i]) + SumSq(x, y, i - 1)

\* Squared Euclidean distance, the metric of IndexFlatL2.
L2sqr(x, y) == SumSq(x, y, Len(x))

\* Python objects: an identity and a value.  Two references alias exactly
\* when they carry the same oid.
Obj(o, v) == [oid |-> o, val |-> v]

Vals(objs) == [i \in DOMAIN objs |-> objs[i].val]


\* ------------------------------------------------ faiss and Python semantics

\* np.array(vectors) followed by IndexFlatL2.add: n, d = x.shape needs a
\* two-dimensional array (a non-empty list of equally long rows) and the
\* wrapper asserts d == self.d.
IndexAddAccepts(ix, vectors) ==
    /\ vectors # <<>>
    /\ \A i \in DOMAIN vectors : Len(vectors[i]) = ix.d

\* Stored position a (0-based) comes before position b in the result order of
\* IndexFlatL2.search: nearer first, the earlier position first among equals.
Before(xb, q, a, b) ==
    \/ L2sqr(xb[a + 1], q) < L2sqr(xb[b + 1], q)
    \/ /\ L2sqr(xb[a + 1], q) = L2sqr(xb[b + 1], q)
       /\ a < b

Rank(xb, q, i) == Cardinality({a \in 0..(Len(xb) - 1) : Before(xb, q, a, i)})

\* The row of labels IndexFlatL2.search returns for one query: k entries,
\* -1 where the index has no further vector.
IndexSearch(ix, q, k) ==
    [j \in 1..k |->
        IF j <= Len(ix.xb)
        THEN CHOOSE i \in 0..(Len(ix.xb) - 1) : Rank(ix.xb, q, i) = j - 1
        ELSE -1]

\* list[i] in Python: negative i counts from the end.
PyGetOk(list, i) == -Len(list) <= i /\ i < Len(list)

PyGet(list, i) == IF i >= 0 THEN list[i + 1] ELSE list[Len(list) + i + 1]

\* A search that hands out the stored object itself.
NoCopy(obj, j) == obj

\* copy.deepcopy: a new object with an equal value; j tells the copies of one
\* search apart.
deepcopy(obj, j) == Obj(<<"copy", j>>, obj.val)

\* ------------------------------------------------------------------- state

VARIABLES
    index,       \* self.index: [d, xb], xb the stored vectors in insertion order
    properties,  \* self.properties: the list of stored objects
    ret,         \* the outcome of the last call, as its caller holds it
    files,       \* the file system: path -> content, NoFile where none
    pc,          \* each thread's position in the call it is running
    local,       \* each thread's local variables
    prompt,      \* hugegraph_llm.config.prompt, a process-wide object
    rag,         \* the last call of rag_answer or graph_rag and what it did
    kg,          \* the build_kg call in progress and what it has done
    batch,       \* the several_rag_answer call in progress, and its files
    extract      \* the last call of InfoExtract.run and what it did

\* The VectorIndex and its callers; the demo's handlers.
indexVars == <<index, properties, ret, files, pc, local>>

appVars == <<prompt, rag, kg, batch, extract>>

vars ==
    <<index, properties, ret, files, pc, local, prompt, rag, kg, batch,
      extract>>

ntotal == Len(index.xb)

Outcome(op, status, exc, args, value, orig) ==
    [op |-> op, status |-> status, exc |-> exc, args |-> args,
     value |-> value, orig |-> orig]

\* VectorIndex.__init__
NewIndex(embed_dim) == [d |-> embed_dim, xb |-> <<>>]

\* Paths a caller persists to and loads from.
IndexPaths == {"i1"}

PropPaths == {"p1", "p2"}

NoFile == [kind |-> "none"]

\* Threads calling into one shared VectorIndex.
Adders == {"t1", "t2"}

Searchers == {"s1"}

Threads == Adders \cup Searchers

NoLocals == [args |-> <<>>, labels |-> <<>>, props |-> <<>>, seen |-> <<>>]

\* The prompt settings as loaded at start-up.
InitPrompt ==
    [default_question |-> "q0", answer_prompt |-> "p0",
     custom_rerank_info |-> "c0"]

NoRequest ==
    [fn |-> "none", args |-> <<>>, status |-> "none", result |-> <<>>,
     error |-> <<>>, warnings |-> <<>>, saved |-> FALSE,
     constructed |-> FALSE, registered |-> <<>>, runs |-> 0,
     executed |-> <<>>,
     context |-> [raw_answer |-> "<absent>",
                  vector_only_answer |-> "<absent>",
                  graph_only_answer |-> "<absent>",
                  graph_vector_answer |-> "<absent>",
                  switch_to_bleu |-> "<absent>"],
     cause |-> [kind |-> "none", msg |-> ""]]

NoBuild ==
    [pc |-> "idle", file |-> "", mode |-> "", schema |-> "",
     registered |-> <<>>, todo |-> <<>>, log |-> <<>>,
     status |-> "none", result |-> ""]

NoBatch ==
    [pc |-> "idle", df |-> <<>>, row |-> 0, calls |-> <<>>,
     status |-> "none", answers_file |-> <<>>, written |-> FALSE]

NoExtract ==
    [pc |-> "idle", schema |-> <<>>, chunks |-> 0, outputs |-> <<>>,
     result |-> <<>>, status |-> "none", error |-> ""]

InitApp ==
    /\ extract = NoExtract
    /\ prompt = InitPrompt
    /\ rag = NoRequest
    /\ kg = NoBuild
    /\ batch = NoBatch

Init ==
    /\ index = NewIndex(Dim)
    /\ properties = <<>>
    /\ ret = Outcome("init", "ok", "", <<>>, <<>>, <<>>)
    /\ files = [f \in IndexPaths \cup PropPaths |-> NoFile]
    /\ pc = [t \in Threads |-> "idle"]
    /\ local = [t \in Threads |-> NoLocals]
    /\ InitApp

\* --------------------------------------------------------------------- add

\* The objects a caller passes as props: new ones, stored by reference.
NewProps(base, P) == [j \in DOMAIN P |-> Obj(<<"prop", base + j>>, P[j])]

\* VectorIndex.add(vectors, props): index.add raises before anything is
\* stored; otherwise the rows are appended, then props is appended whole.
Add(vectors, props) ==
    IF IndexAddAccepts(index, vectors)
    THEN /\ ntotal + Len(vectors) <= MaxN
         /\ Len(properties) + Len(props) <= MaxN
         /\ index' = [index EXCEPT !.xb = index.xb \o vectors]
         /\ properties' = properties \o NewProps(Len(properties), props)
         /\ ret' = Outcome("add", "ok", "", <<vectors, props>>, <<>>, <<>>)
         /\ UNCHANGED <<files, pc, local, appVars>>
    ELSE /\ ret' = Outcome("add", "raised",
                           IF vectors = <<>>
                              \/ \E i, j \in DOMAIN vectors :
                                    Len(vectors[i]) # Len(vectors[j])
                           THEN "ValueError" ELSE "AssertionError",
                           <<vectors, props>>, <<>>, <<>>)
         /\ UNCHANGED <<index, properties, files, pc, local, appVars>>

\* ------------------------------------------------------------------ search

\* The loop over indices[0]: properties[i] raises IndexError for a label
\* outside the list, and each hit is deep-copied.
LabelsRaise(props, labels) ==
    \E j \in DOMAIN labels : ~PyGetOk(props, labels[j])

Gather(props, labels) ==
    [j \in DOMAIN labels |-> deepcopy(PyGet(props, labels[j]), j)]

SearchRaises(ix, props, q, k) ==
    \/ Len(q) # ix.d
    \/ k <= 0
    \/ LabelsRaise(props, IndexSearch(ix, q, k))

SearchResults(ix, props, q, k) == Gather(props, IndexSearch(ix, q, k))

\* VectorIndex.search(query_vector, top_k)
Search(q, k) ==
    /\ ret' = IF Len(q) # index.d \/ k <= 0
              THEN Outcome("search", "raised", "AssertionError",
                           <<q, k>>, <<>>, <<>>)
              ELSE LET labels == IndexSearch(index, q, k)
                       results == Gather(properties, labels)
                   IN  IF LabelsRaise(properties, labels)
                       THEN Outcome("search", "raised", "IndexError",
                                    <<q, k>>, <<>>, <<>>)
                       ELSE Outcome("search", "ok", "", <<q, k>>,
                                    results, Vals(results))
    /\ UNCHANGED <<index, properties, files, pc, local, appVars>>

\* A write through reference o reaches every holder of that object.
WriteThrough(objs, o) ==
    [i \in DOMAIN objs |->
        IF objs[i].oid = o THEN Obj(o, Mutated) ELSE objs[i]]

\* The caller of search mutates the j-th value it was returned.
MutateResult(j) ==
    /\ ret.op \in {"search", "mutate"}
    /\ ret.status = "ok"
    /\ j \in DOMAIN ret.value
    /\ ret.value[j].val # Mutated
    /\ ret' = [ret EXCEPT !.op = "mutate",
                          !.value = WriteThrough(ret.value, ret.value[j].oid)]
    /\ properties' = WriteThrough(properties, ret.value[j].oid)
    /\ UNCHANGED <<index, files, pc, local, appVars>>

\* ------------------------------------------------------------- persistence

\* The rows of xb one after another, as IndexFlat keeps and writes them.
RECURSIVE Flatten(_)
Flatten(xb) == IF xb = <<>> THEN <<>> ELSE Head(xb) \o Flatten(Tail(xb))

\* faiss.write_index of a flat index: d, ntotal and the raw vector data.
WriteIndex(ix) ==
    [kind |-> "faiss", d |-> ix.d, ntotal |-> Len(ix.xb),
     codes |-> Flatten(ix.xb)]

\* A reader that takes the raw data column by column.
ReadIndexByColumn(c) ==
    [d |-> c.d,
     xb |-> [i \in 1..c.ntotal |->
                [j \in 1..c.d |-> c.codes[(j - 1) * c.ntotal + i]]]]

\* faiss.read_index: ntotal rows of d numbers each, cut from the raw data.
ReadIndex(c) ==
    [d |-> c.d,
     xb |-> [i \in 1..c.ntotal |->
                [j \in 1..c.d |-> c.codes[(i - 1) * c.d + j]]]]

\* pickle.dump of the list: the values, in order, without the objects'
\* identity.
PklDump(objs) == [kind |-> "pickle", items |-> Vals(objs)]

\* pickle.load: a list of new objects holding the pickled values.
PklLoad(c) == [i \in DOMAIN c.items |-> Obj(<<"loaded", i>>, c.items[i])]

\* VectorIndex.to_index_file(index_file, properties_file)
ToIndexFile(index_file, properties_file) ==
    /\ files' = [files EXCEPT ![index_file] = WriteIndex(index),
                              ![properties_file] = PklDump(properties)]
    /\ ret' = Outcome("persist", "ok", "", <<index_file, properties_file>>,
                      <<>>, <<>>)
    /\ UNCHANGED <<index, properties, pc, local, appVars>>

\* The VectorIndex from_index_file builds from two readable files.
LoadedIndex(ic, pcnt) == [index |-> ReadIndex(ic), properties |-> PklLoad(pcnt)]

\* VectorIndex.from_index_file(index_file, properties_file): read_index and
\* open raise on a missing file; nothing compares the two payloads.
FromIndexFile(index_file, properties_file) ==
    /\ ret' = IF files[index_file] = NoFile
              THEN Outcome("load", "raised", "RuntimeError",
                           <<index_file, properties_file>>, <<>>, <<>>)
              ELSE IF files[properties_file] = NoFile
              THEN Outcome("load", "raised", "FileNotFoundError",
                           <<index_file, properties_file>>, <<>>, <<>>)
              ELSE Outcome("load", "ok", "", <<index_file, properties_file>>,
                           LoadedIndex(files[index_file],
                                       files[properties_file]),
                           <<>>)
    /\ UNCHANGED <<index, properties, files, pc, local, appVars>>

\* ------------------------------------------------------------- concurrency

\* Threads share one VectorIndex and nothing in add or search takes a lock.
\* A thread can be switched out between the two statements of add, and
\* between index.search and the loop of search; each statement is taken as
\* one step.

\* add, line 50: self.index.add(np.array(vectors))
AddIndexStep(t, vectors, props) ==
    /\ pc[t] = "idle"
    /\ IF IndexAddAccepts(index, vectors)
       THEN /\ ntotal + Len(vectors) <= MaxN
            /\ index' = [index EXCEPT !.xb = index.xb \o vectors]
            /\ pc' = [pc EXCEPT ![t] = "extend"]
            /\ local' = [local EXCEPT ![t] = [NoLocals EXCEPT !.props = props]]
       ELSE UNCHANGED <<index, pc, local>>
    /\ UNCHANGED <<properties, ret, files, appVars>>

\* add, line 51: self.properties.extend(props)
AddExtendStep(t) ==
    /\ pc[t] = "extend"
    /\ properties' = properties \o NewProps(Len(properties), local[t].props)
    /\ pc' = [pc EXCEPT ![t] = "idle"]
    /\ local' = [local EXCEPT ![t] = NoLocals]
    /\ UNCHANGED <<index, ret, files, appVars>>

\* search, line 54: the labels are computed from the vectors stored now.
\* seen is what this read could observe: the two lists' lengths.
SearchIndexStep(t, q, k) ==
    /\ pc[t] = "idle"
    /\ Len(q) = index.d
    /\ k > 0
    /\ pc' = [pc EXCEPT ![t] = "gather"]
    /\ local' = [local EXCEPT ![t] =
                    [NoLocals EXCEPT !.args = <<q, k>>,
                                     !.labels = IndexSearch(index, q, k),
                                     !.seen = <<ntotal, Len(properties)>>]]
    /\ UNCHANGED <<index, properties, ret, files, appVars>>

\* search, lines 55-58: the loop reads the properties stored now.
SearchGatherStep(t) ==
    /\ pc[t] = "gather"
    /\ ret' = IF LabelsRaise(properties, local[t].labels)
              THEN Outcome("search", "raised", "IndexError", local[t].args,
                           <<>>, <<>>)
              ELSE Outcome("search", "ok", "", local[t].args,
                           Gather(properties, local[t].labels),
                           Vals(Gather(properties, local[t].labels)))
    /\ pc' = [pc EXCEPT ![t] = "idle"]
    /\ local' = [local EXCEPT ![t] = NoLocals]
    /\ UNCHANGED <<index, properties, files, appVars>>

\* ------------------------------------------------------------ specification

\* Batches index.add accepts (of at most n rows), and batches it rejects: an
\* empty one, one of a wrong dimension, a ragged one.
GoodBatches(n) == SeqsUpTo(Vecs, n) \ {<<>>}

BadBatches ==
    {<<>>} \cup {<<b>> : b \in BadVecs}
           \cup {<<v, b>> : v \in {[i \in 1..Dim |-> 0]}, b \in BadVecs}

Queries == Vecs \cup BadVecs

Next ==
    \/ \E vectors \in GoodBatches(MaxN - ntotal),
          props \in SeqsUpTo(PropVals, MaxN - Len(properties)) :
            Add(vectors, props)
    \/ \E vectors \in BadBatches, props \in {<<>>, <<"A">>} :
            Add(vectors, props)
    \/ \E q \in Queries, k \in 0..MaxTopK : Search(q, k)
    \/ \E j \in 1..MaxTopK : MutateResult(j)

Spec == Init /\ [][Next]_vars

\* Persisting and loading.  The batches added pair unit vectors with
\* properties one to one.

PairedInputs(n) ==
    {a \in SeqsUpTo(UnitVecs, n) \X SeqsUpTo(PropVals, n) :
        a[1] # <<>> /\ Len(a[1]) = Len(a[2])}

NextPersist ==
    \/ \E a \in PairedInputs(MaxN - ntotal) : Add(a[1], a[2])
    \/ \E i \in IndexPaths, p \in PropPaths : ToIndexFile(i, p)
    \/ \E i \in IndexPaths, p \in PropPaths : FromIndexFile(i, p)

SpecPersist == Init /\ [][NextPersist]_vars

\* Concurrent callers.  Every batch pairs a vector with the property that
\* names it, so a stored pair shows whether it was passed together.
PassedWith(v) == IF v[1] = 1 THEN "A" ELSE "B"

TaggedInputs(n) ==
    {a \in PairedInputs(n) :
        \A i \in DOMAIN a[1] : a[2][i] = PassedWith(a[1][i])}

NextConc ==
    \/ \E t \in Adders, a \in TaggedInputs(MaxN - ntotal) :
          AddIndexStep(t, a[1], a[2])
    \/ \E t \in Adders : AddExtendStep(t)
    \/ \E t \in Searchers, q \in UnitVecs, k \in 1..MaxTopK :
          SearchIndexStep(t, q, k)
    \/ \E t \in Searchers : SearchGatherStep(t)

SpecConc == Init /\ [][NextConc]_vars

\* ------------------------------------------------------ claims: add, search

\* The arguments of the last call, by name.
ArgVectors == ret.args[1]

ArgProps == ret.args[2]

ArgQuery == ret.args[1]

ArgTopK == ret.args[2]

\* Every label search can return is an offset into the list s.
LabelsWithin(s) ==
    \A q \in Vecs, k \in 1..MaxTopK :
        \A j \in 1..k :
            /\ 0 <= IndexSearch(index, q, k)[j]
            /\ IndexSearch(index, q, k)[j] < Len(s)

\* C1, as stated: after any add on an index created empty, the number of
\* stored vectors equals the number of stored properties, and every index
\* that search returns is a valid offset into both.
C1_LengthsAgree ==
    ret.op = "add" =>
        /\ ntotal = Len(properties)
        /\ LabelsWithin(index.xb)
        /\ LabelsWithin(properties)

\* C2, as stated: add fails whenever len(vectors) # len(props) or some
\* vector's length differs from the index dimension; vectors and props are
\* appended only when neither is the case.
C2_AddRejectsMismatch ==
    (/\ ret.op = "add"
     /\ \/ Len(ArgVectors) # Len(ArgProps)
        \/ \E i \in DOMAIN ArgVectors : Len(ArgVectors[i]) # index.d)
    => ret.status = "raised"

\* C3, as stated: for every top_k >= 1 search returns at most top_k results
\* and at most as many results as the index holds entries (read on an index
\* whose two lists agree, where the number of entries is one number).
C3_SearchUpperBound ==
    (/\ ret.op = "search"
     /\ ret.status = "ok"
     /\ ArgTopK >= 1
     /\ ntotal = Len(properties))
    => /\ Len(ret.value) <= ArgTopK
       /\ Len(ret.value) <= ntotal

\* C4, as stated: search on an index to which nothing has been added returns
\* an empty sequence, for every query of the right dimension and every
\* top_k >= 1, and does not raise.
C4_EmptyIndexSearch ==
    (/\ ret.op = "search"
     /\ ntotal = 0
     /\ Len(properties) = 0
     /\ Len(ArgQuery) = index.d
     /\ ArgTopK >= 1)
    => /\ ret.status = "ok"
       /\ ret.value = <<>>

\* labels are k different stored positions, nearest to q first, and no
\* position left out is nearer than one taken.
NearestFirst(labels, q, k) ==
    /\ \A j \in 1..k : labels[j] \in 1..ntotal
    /\ \A i, j \in 1..k : i # j => labels[i] # labels[j]
    /\ \A i, j \in 1..k :
          i < j => L2sqr(index.xb[labels[i]], q) <= L2sqr(index.xb[labels[j]], q)
    /\ \A j \in 1..k, o \in 1..ntotal :
          (\A i \in 1..k : labels[i] # o)
              => L2sqr(index.xb[labels[j]], q) <= L2sqr(index.xb[o], q)

\* C5, as stated: on an index holding at least top_k entries, search(q, top_k)
\* returns top_k values, closest first: the i-th is the property stored at
\* the insertion position of the i-th nearest vector.
C5_NearestNeighbours ==
    (/\ ret.op = "search"
     /\ Len(ArgQuery) = index.d
     /\ ArgTopK >= 1
     /\ ArgTopK <= ntotal)
    => /\ ret.status = "ok"
       /\ Len(ret.orig) = ArgTopK
       /\ \E labels \in [1..ArgTopK -> 1..ntotal] :
             /\ NearestFirst(labels, ArgQuery, ArgTopK)
             /\ \A j \in 1..ArgTopK :
                   /\ labels[j] <= Len(properties)
                   /\ ret.orig[j] = properties[labels[j]].val

\* s is t with something appended: the entries of s keep position and value.
IsPrefix(s, t) ==
    /\ Len(s) <= Len(t)
    /\ \A i \in 1..Len(s) : t[i] = s[i]

\* C6, as stated: after add(V, P) the stored vector count and the stored
\* property count have each grown by exactly len(V), and every entry present
\* before the call keeps its position and its value.
C6_AppendOnlyGrowth ==
    [][(ret'.op = "add" /\ ret'.status = "ok") =>
          /\ Len(index'.xb) = Len(index.xb) + Len(ret'.args[1])
          /\ Len(properties') = Len(properties) + Len(ret'.args[1])
          /\ IsPrefix(index.xb, index'.xb)
          /\ IsPrefix(properties, properties')]_vars

\* C10: a value returned by search shares no mutable state with the index.
\* A step of search, or of the caller mutating a returned value, leaves the
\* stored vectors and properties as they were, and the same search run again
\* returns the values first returned.
C10_ResultsIndependent ==
    [][(ret'.op \in {"search", "mutate"} /\ ret'.status = "ok") =>
          /\ index' = index
          /\ properties' = properties
          /\ ~SearchRaises(index', properties', ret'.args[1], ret'.args[2])
          /\ Vals(SearchResults(index', properties',
                                ret'.args[1], ret'.args[2])) = ret'.orig]_vars

\* C10's case: the caller has mutated a value returned from a non-empty index.
C10_Witness ==
    /\ ret.op = "mutate"
    /\ Len(properties) > 0
    /\ \E j \in DOMAIN ret.value :
          ret.value[j].val = Mutated /\ ret.orig[j] # Mutated

\* ---------------------------------------------------- claims: concurrency

Min(a, b) == IF a <= b THEN a ELSE b

\* C7, as stated: under every interleaving of concurrent add calls, and of an
\* add with a search, the i-th stored property is the one passed together
\* with the i-th stored vector, and no search reads an index whose vector
\* count differs from its property count.
C7_AddsSerialized ==
    /\ \A i \in 1..Min(ntotal, Len(properties)) :
          properties[i].val = PassedWith(index.xb[i])
    /\ \A t \in Searchers :
          pc[t] = "gather" => local[t].seen[1] = local[t].seen[2]

\* --------------------------------------------------- claims: persistence

\* The index a successful from_index_file returned.
Loaded == ret.value

\* The two files named in the last call are the ones to_index_file writes
\* for the index as it is now.
FilesWrittenByIndex ==
    /\ files[ret.args[1]] = WriteIndex(index)
    /\ files[ret.args[2]] = PklDump(properties)

SameSearch(q, k) ==
    /\ SearchRaises(Loaded.index, Loaded.properties, q, k)
          = SearchRaises(index, properties, q, k)
    /\ ~SearchRaises(index, properties, q, k) =>
          Vals(SearchResults(Loaded.index, Loaded.properties, q, k))
              = Vals(SearchResults(index, properties, q, k))

\* C8: for a non-empty index, from_index_file applied to the two files its
\* to_index_file wrote returns an index of the same dimension, the same
\* vectors in the same order and the same properties in the same order, and
\* every search on it gives what the same search gives on the original.
C8_RoundTrip ==
    (ret.op = "load" /\ ntotal > 0 /\ FilesWrittenByIndex) =>
        /\ ret.status = "ok"
        /\ Loaded.index.d = index.d
        /\ Loaded.index.xb = index.xb
        /\ Vals(Loaded.properties) = Vals(properties)
        /\ \A q \in Queries, k \in 0..MaxTopK : SameSearch(q, k)

\* C8's case: an index of two different entries was persisted and loaded
\* back.
C8_Witness ==
    /\ ret.op = "load"
    /\ ret.status = "ok"
    /\ FilesWrittenByIndex
    /\ ntotal >= 2
    /\ index.xb[1] # index.xb[2]
    /\ properties[1].val # properties[2].val

\* C9, as stated: given an index file and a properties file that is missing
\* or holds a number of properties other than the number of vectors in the
\* index file, from_index_file fails instead of returning a VectorIndex.
C9_UnpairedLoadFails ==
    (/\ ret.op = "load"
     /\ files[ret.args[1]] # NoFile
     /\ \/ files[ret.args[2]] = NoFile
        \/ Len(files[ret.args[2]].items) # files[ret.args[1]].ntotal)
    => ret.status = "raised"

\* ------------------------------------------------- rag_answer and graph_rag

\* A request: the question, the four answer flags, and the prompt texts that
\* rag_answer also takes.  graph_ratio, rerank_method and near_neighbor_first
\* are handed to merge_dedup_rerank unread and are left out.
Texts == {"q0", "q1"}

AnswerPrompts == {"p0"}

RelatedInfos == {"c0", "c1"}

Requests ==
    [text : Texts,
     raw_answer : BOOLEAN,
     vector_only_answer : BOOLEAN,
     graph_only_answer : BOOLEAN,
     graph_vector_answer : BOOLEAN,
     answer_prompt : AnswerPrompts,
     custom_related_information : RelatedInfos]

\* The context run returns: a dict in which a key may be missing.
Absent == "<absent>"

AnswerKeys ==
    <<"raw_answer", "vector_only_answer", "graph_only_answer",
      "graph_vector_answer">>

Context(raw, vec, gra, gv, bleu) ==
    [raw_answer |-> raw, vector_only_answer |-> vec,
     graph_only_answer |-> gra, graph_vector_answer |-> gv,
     switch_to_bleu |-> bleu]

Contexts ==
    {Context(ans[1], ans[2], ans[3], ans[4], bleu) :
        ans \in {<<Absent, Absent, Absent, Absent>>,
                 <<"raw", Absent, Absent, Absent>>,
                 <<"raw", "vec", "gra", "gv">>},
        bleu \in {Absent, "False", "True"}}

\* What a run of the chain can come to: the context, or an exception of one
\* of the operators.
RunOutcomes ==
    {[kind |-> "ok", context |-> c, msg |-> ""] : c \in Contexts}
        \cup {[kind |-> k, context |-> <<>>, msg |-> "m"] :
                 k \in {"ValueError", "Exception"}}

\* dict.get(key, default), and the truth of a value in an if.
ContextGet(c, key, default) == IF c[key] = Absent THEN default ELSE c[key]

Truthy(v) == v \notin {Absent, "False", ""}

\* rag_answer, lines 57-58; graph_rag, lines 58-59
vector_search(a) == a.vector_only_answer \/ a.graph_vector_answer

graph_search(a) == a.graph_only_answer \/ a.graph_vector_answer

\* A test of the flags that takes raw_answer the wrong way round.
NothingSelectedRawInverted(a) ==
    a.raw_answer /\ ~vector_search(a) /\ ~graph_search(a)

\* rag_answer, line 59; graph_rag, line 61
NothingSelected(a) ==
    a.raw_answer = FALSE /\ ~vector_search(a) /\ ~graph_search(a)

\* rag_answer, lines 50-55: the process-wide prompt takes the request's texts
\* and is saved to its yaml file when one of them differs.
should_update_prompt(p, a) ==
    \/ p.default_question # a.text
    \/ p.answer_prompt # a.answer_prompt
    \/ p.custom_rerank_info # a.custom_related_information

UpdatePrompt(p, a) ==
    IF should_update_prompt(p, a)
    THEN [default_question |-> a.text,
          answer_prompt |-> a.answer_prompt,
          custom_rerank_info |-> a.custom_related_information]
    ELSE p

\* The return value: the four answers, "" for a missing key.
Answers(c) ==
    <<ContextGet(c, "raw_answer", ""),
      ContextGet(c, "vector_only_answer", ""),
      ContextGet(c, "graph_only_answer", ""),
      ContextGet(c, "graph_vector_answer", "")>>

NoAnswers == <<"", "", "", "">>

SelectWarning == "Please select at least one generate mode."

BleuWarning ==
    "Online reranker fails, automatically switches to local bleu rerank."

\* The except clauses of both handlers: gr.Error with the message of a
\* ValueError, or with any other message after a fixed prefix.
AsGrError(o) ==
    [type |-> "gr.Error",
     msg |-> IF o.kind = "ValueError" THEN <<o.msg>>
             ELSE <<"An unexpected error occurred: ", o.msg>>]

\* An exception that leaves a handler as it was raised.
Raw(o) == [type |-> o.kind, msg |-> <<o.msg>>]

\* A chain that registers merge_dedup_rerank ahead of the retrieval operators.
RagOperatorsMergeFirst(a) ==
    <<"merge_dedup_rerank">>
        \o (IF vector_search(a) THEN <<"query_vector_index">> ELSE <<>>)
        \o (IF graph_search(a)
            THEN <<"extract_keywords", "keywords_to_vid", "query_graphdb">>
            ELSE <<>>)
        \o <<"synthesize_answer">>

\* rag_answer, lines 63-70: the operators registered, in order.
RagOperators(a) ==
    (IF vector_search(a) THEN <<"query_vector_index">> ELSE <<>>)
        \o (IF graph_search(a)
            THEN <<"extract_keywords", "keywords_to_vid", "query_graphdb">>
            ELSE <<>>)
        \o <<"merge_dedup_rerank", "synthesize_answer">>

\* graph_rag, lines 64-73: the operators registered, in order.
GraphRagOperators(a) ==
    (IF vector_search(a) THEN <<"query_vector_index_for_rag">> ELSE <<>>)
        \o (IF graph_search(a)
            THEN <<"extract_keyword", "match_keyword_to_id",
                   "query_graph_for_rag">>
            ELSE <<>>)
        \o <<"merge_dedup_rerank", "synthesize_answer">>

\* The pipeline is lazy: registering executes nothing, and each run executes
\* every registered operator once, in registration order.
RECURSIVE Executions(_, _)
Executions(registered, runs) ==
    IF runs = 0 THEN <<>>
    ELSE registered \o Executions(registered, runs - 1)

\* What a request leaves to be seen: its return value or the exception that
\* reaches the caller, the warnings shown, and the calls it made.  context is
\* the context its last run returned, cause the exception a run raised.
NoContext == Context(Absent, Absent, Absent, Absent, Absent)

NoCause == [kind |-> "none", msg |-> ""]

Cause(o) == [kind |-> o.kind, msg |-> o.msg]

Request(fn, a, st, res, err, warn, saved, built, ops, runs, ctx, cause) ==
    [fn |-> fn, args |-> a, status |-> st, result |-> res,
     error |-> err, warnings |-> warn, saved |-> saved,
     constructed |-> built, registered |-> ops, runs |-> runs,
     executed |-> Executions(ops, runs),
     context |-> ctx, cause |-> cause]

\* A handler that gives up the answers once the reranker has degraded.
RagReturnDropsOnBleu(c) ==
    IF Truthy(c.switch_to_bleu) THEN NoAnswers ELSE Answers(c)

\* rag_answer, lines 76-81
RagReturn(c) == Answers(c)

\* rag_answer(text, raw_answer, ..., answer_prompt) with the prompt as p; o is
\* what the one run of the chain comes to.
RagAnswerOutcome(p, a, o) ==
    LET saved == should_update_prompt(p, a) IN
    IF NothingSelected(a)
    THEN Request("rag_answer", a, "returned", NoAnswers, <<>>,
                 <<SelectWarning>>, saved, FALSE, <<>>, 0, NoContext, NoCause)
    ELSE IF o.kind = "ok"
    THEN Request("rag_answer", a, "returned", RagReturn(o.context), <<>>,
                 IF Truthy(o.context.switch_to_bleu)
                 THEN <<BleuWarning>> ELSE <<>>,
                 saved, TRUE, RagOperators(a), 1, o.context, NoCause)
    ELSE Request("rag_answer", a, "raised", <<>>, AsGrError(o), <<>>,
                 saved, TRUE, RagOperators(a), 1, NoContext, Cause(o))

RagAnswer(a, o) ==
    /\ rag' = RagAnswerOutcome(prompt, a, o)
    /\ prompt' = UpdatePrompt(prompt, a)
    /\ UNCHANGED <<indexVars, kg, batch, extract>>

\* graph_rag(text, raw_answer, ...): the chain is run at the end of line 74,
\* outside the try (o1), and again at line 77 inside it (o2).
GraphRagOutcome(a, o1, o2) ==
    IF NothingSelected(a)
    THEN Request("graph_rag", a, "returned", NoAnswers, <<>>,
                 <<SelectWarning>>, FALSE, FALSE, <<>>, 0, NoContext, NoCause)
    ELSE IF o1.kind # "ok"
    THEN Request("graph_rag", a, "raised", <<>>, Raw(o1), <<>>,
                 FALSE, TRUE, GraphRagOperators(a), 1, NoContext, Cause(o1))
    ELSE IF o2.kind = "ok"
    THEN Request("graph_rag", a, "returned", Answers(o2.context), <<>>,
                 <<>>, FALSE, TRUE, GraphRagOperators(a), 2, o2.context,
                 NoCause)
    ELSE Request("graph_rag", a, "raised", <<>>, AsGrError(o2), <<>>,
                 FALSE, TRUE, GraphRagOperators(a), 2, NoContext, Cause(o2))

GraphRag(a, o1, o2) ==
    /\ rag' = GraphRagOutcome(a, o1, o2)
    /\ UNCHANGED <<indexVars, prompt, kg, batch, extract>>

\* graph_rag takes no prompt texts and never reads switch_to_bleu.
GraphRequests ==
    {a \in Requests : a.text = "q0" /\ a.custom_related_information = "c0"}

GraphRunOutcomes ==
    {o \in RunOutcomes : o.kind = "ok" => o.context.switch_to_bleu = Absent}

NextRag ==
    \/ \E a \in Requests, o \in RunOutcomes : RagAnswer(a, o)
    \/ \E a \in GraphRequests, o1 \in GraphRunOutcomes :
          \E o2 \in (IF o1.kind = "ok" THEN GraphRunOutcomes ELSE {o1}) :
              GraphRag(a, o1, o2)

SpecRag == Init /\ [][NextRag]_vars

\* ------------------------------------------ claims on rag_answer, graph_rag

Handled == rag.status # "none"

AllFlagsFalse(a) ==
    /\ ~a.raw_answer
    /\ ~a.vector_only_answer
    /\ ~a.graph_only_answer
    /\ ~a.graph_vector_answer

ReportsNoSelection ==
    /\ rag.status = "returned"
    /\ rag.result = <<"", "", "", "">>
    /\ rag.warnings = <<SelectWarning>>
    /\ ~rag.constructed
    /\ rag.registered = <<>>
    /\ rag.runs = 0
    /\ rag.executed = <<>>

OperatorRole(op) ==
    CASE op \in {"query_vector_index", "query_vector_index_for_rag"}
            -> "vector-query"
      [] op \in {"extract_keywords", "extract_keyword"}
            -> "keyword-extraction"
      [] op \in {"keywords_to_vid", "match_keyword_to_id"} -> "vid-mapping"
      [] op \in {"query_graphdb", "query_graph_for_rag"} -> "graph-query"
      [] op = "merge_dedup_rerank" -> "merge-dedup-rerank"
      [] op = "synthesize_answer" -> "answer-synthesis"

Roles(ops) == [i \in 1..Len(ops) |-> OperatorRole(ops[i])]

ExpectedChain(a) ==
    (IF a.vector_only_answer \/ a.graph_vector_answer
     THEN <<"vector-query">> ELSE <<>>)
        \o (IF a.graph_only_answer \/ a.graph_vector_answer
            THEN <<"keyword-extraction", "vid-mapping", "graph-query">>
            ELSE <<>>)
        \o <<"merge-dedup-rerank", "answer-synthesis">>

\* C12: for every combination of the four flags with at least one true, the
\* registered operators are exactly: the vector query iff vector_only or
\* graph_vector is set; then keyword extraction, vid mapping and graph query
\* iff graph_only or graph_vector is set; then merge-dedup-rerank; then answer
\* synthesis, always last.
C12_OperatorOrder ==
    (Handled /\ ~AllFlagsFalse(rag.args))
        => /\ rag.constructed
           /\ Roles(rag.registered) = ExpectedChain(rag.args)

C12_Witness ==
    /\ Handled
    /\ rag.fn = "rag_answer"
    /\ rag.args.graph_vector_answer
    /\ ~rag.args.vector_only_answer
    /\ Len(rag.registered) = 6

RanToContext == rag.status = "returned" /\ rag.runs > 0

\* C13: when the context the run returns has switch_to_bleu true, rag_answer
\* shows a warning and still returns the four answers of that context, ""
\* for a key the context lacks, and raises nothing.
C13_BleuWarning ==
    (/\ rag.fn = "rag_answer"
     /\ rag.runs > 0
     /\ rag.cause.kind = "none"
     /\ rag.context.switch_to_bleu = "True")
        => /\ rag.status = "returned"
           /\ rag.error = <<>>
           /\ rag.warnings = <<BleuWarning>>
           /\ \A i \in 1..4 :
                 rag.result[i] =
                     IF rag.context[AnswerKeys[i]] = Absent THEN ""
                     ELSE rag.context[AnswerKeys[i]]

C13_Witness ==
    /\ rag.fn = "rag_answer"
    /\ RanToContext
    /\ rag.context.switch_to_bleu = "True"
    /\ rag.context.raw_answer = "raw"
    /\ rag.context.graph_only_answer = Absent
    /\ rag.result = <<"raw", "", "", "">>

\* C18: every failure of the chain's execution in rag_answer and graph_rag
\* reaches the caller as a gr.Error: with the same message for a ValueError,
\* and with "An unexpected error occurred: " before the message for any other
\* exception.
C18_FailuresAsGrError ==
    (Handled /\ rag.cause.kind # "none")
        => /\ rag.status = "raised"
           /\ rag.error.type = "gr.Error"
           /\ rag.error.msg =
                  IF rag.cause.kind = "ValueError" THEN <<rag.cause.msg>>
                  ELSE <<"An unexpected error occurred: ", rag.cause.msg>>

\* C19: each request that selects a mode executes its chain exactly once, in
\* rag_answer and in graph_rag: every registered operator is executed once,
\* by the one run, and registering executes nothing.
C19_ChainRunsOnce ==
    (Handled /\ ~AllFlagsFalse(rag.args))
        => /\ rag.runs = 1
           /\ rag.executed = rag.registered

\* ------------------------------------------------------------- build_kg

\* The choices of the build-mode radio button.
BuildModes == {"Test Mode", "Import Mode", "Clear and Import", "Rebuild Vector"}

\* The uploaded file by its suffix, and the schema box: empty, a JSON
\* document, or a text json.loads rejects (taken as the name of a graph).
FileKinds == {"txt", "docx", "pdf", "other"}

Readable(file) == file \in {"txt", "docx"}

SchemaTexts == {"", "json", "graph-name"}

FileError(file) ==
    IF file = "pdf"
    THEN "PDF will be supported later! Try to upload text/docx now"
    ELSE "Please input txt or docx file."

SchemaError == "ERROR: please input schema."

\* build_kg, lines 109-118: the schema is wanted unless the mode is the
\* string "Rebuild vertex index", which is none of the radio's choices.
SchemaWanted(mode) == mode # "Rebuild vertex index"

SchemaMissing(mode, schema) == SchemaWanted(mode) /\ schema = ""

ImportSchema(schema) ==
    IF schema = "json" THEN "import_schema(from_user_defined)"
    ELSE "import_schema(from_hugegraph)"

\* The statements of build_kg after its schema test, in source order: a call
\* made on the spot, the registration of an operator on the builder, or the
\* builder's run.
Call(what) == [do |-> "call", what |-> what]

Register(what) == [do |-> "register", what |-> what]

Run == [do |-> "run", what |-> "builder"]

\* A build that clears the graph only once the builder has run.
BuildStatementsLateClear(mode, schema) ==
    (IF SchemaWanted(mode) THEN <<Register(ImportSchema(schema))>> ELSE <<>>)
        \o <<Register("chunk_split")>>
        \o (IF mode = "Rebuild Vector" THEN <<Register("fetch_graph_data")>>
            ELSE <<Register("extract_info")>>)
        \o (IF mode # "Test Mode"
            THEN (IF mode \in {"Clear and Import", "Rebuild Vector"}
                  THEN <<Call("clean_vector_index")>> ELSE <<>>)
                     \o <<Register("build_vector_index")>>
            ELSE <<>>)
        \o (IF mode \in {"Clear and Import", "Import Mode"}
            THEN <<Register("commit_to_hugegraph")>> ELSE <<>>)
        \o (IF mode # "Test Mode"
            THEN <<Register("build_vertex_id_semantic_index")>> ELSE <<>>)
        \o <<Run>>
        \o (IF mode = "Clear and Import"
            THEN <<Call("clean_hg_data")>> ELSE <<>>)

\* build_kg, lines 109-139
BuildStatements(mode, schema) ==
    (IF SchemaWanted(mode) THEN <<Register(ImportSchema(schema))>> ELSE <<>>)
        \o <<Register("chunk_split")>>
        \o (IF mode = "Rebuild Vector" THEN <<Register("fetch_graph_data")>>
            ELSE <<Register("extract_info")>>)
        \o (IF mode # "Test Mode"
            THEN (IF mode \in {"Clear and Import", "Rebuild Vector"}
                  THEN <<Call("clean_vector_index")>> ELSE <<>>)
                     \o <<Register("build_vector_index")>>
            ELSE <<>>)
        \o (IF mode = "Clear and Import"
            THEN <<Call("clean_hg_data")>> ELSE <<>>)
        \o (IF mode \in {"Clear and Import", "Import Mode"}
            THEN <<Register("commit_to_hugegraph")>> ELSE <<>>)
        \o (IF mode # "Test Mode"
            THEN <<Register("build_vertex_id_semantic_index")>> ELSE <<>>)
        \o <<Run>>

What(stmts) == [i \in 1..Len(stmts) |-> stmts[i].what]

IsCall(stmt) == stmt.do = "call"

IsRegister(stmt) == stmt.do = "register"

RunAt(stmts) == CHOOSE i \in 1..Len(stmts) : stmts[i] = Run

\* The calls made before the run and after it, and the operators the builder
\* holds when it runs.  The builder is lazy: a registration executes nothing,
\* and the run executes the registered operators in registration order.
CallsBeforeRun(stmts) ==
    What(SelectSeq(SubSeq(stmts, 1, RunAt(stmts) - 1), IsCall))

CallsAfterRun(stmts) ==
    What(SelectSeq(SubSeq(stmts, RunAt(stmts) + 1, Len(stmts)), IsCall))

RegisteredAtRun(stmts) ==
    What(SelectSeq(SubSeq(stmts, 1, RunAt(stmts) - 1), IsRegister))

Build(at, file, mode, schema, registered, todo, log, status, result) ==
    [pc |-> at, file |-> file, mode |-> mode, schema |-> schema,
     registered |-> registered, todo |-> todo, log |-> log,
     status |-> status, result |-> result]

\* build_kg(file, schema, example_prompt, build_mode) up to builder.run():
\* the file and schema tests, the clearing calls and the registrations.
\* clean_vector_index and clean_hg_data are taken to succeed.
BuildKgCall(file, schema, mode) ==
    /\ kg.pc \in {"idle", "done"}
    /\ kg' =
         IF ~Readable(file)
         THEN Build("done", file, mode, schema, <<>>, <<>>, <<>>,
                    "raised", FileError(file))
         ELSE IF SchemaMissing(mode, schema)
         THEN Build("done", file, mode, schema, <<>>, <<>>, <<>>,
                    "returned", SchemaError)
         ELSE LET stmts == BuildStatements(mode, schema) IN
              Build("running", file, mode, schema, RegisteredAtRun(stmts),
                    RegisteredAtRun(stmts), CallsBeforeRun(stmts),
                    "none", "")
    /\ UNCHANGED <<indexVars, prompt, rag, batch, extract>>

\* builder.run(): the next operator executes.
RunOperator ==
    /\ kg.pc = "running"
    /\ kg.todo # <<>>
    /\ kg' = [kg EXCEPT !.todo = Tail(@), !.log = Append(@, Head(kg.todo))]
    /\ UNCHANGED <<indexVars, prompt, rag, batch, extract>>

\* builder.run(): the next operator raises, and build_kg raises gr.Error with
\* its message (lines 141-143).
RunOperatorRaises ==
    /\ kg.pc = "running"
    /\ kg.todo # <<>>
    /\ kg' = [kg EXCEPT !.pc = "done", !.status = "raised",
                        !.result = "gr.Error"]
    /\ UNCHANGED <<indexVars, prompt, rag, batch, extract>>

\* builder.run() returns the context, and build_kg returns it (line 140).
BuildKgReturn ==
    /\ kg.pc = "running"
    /\ kg.todo = <<>>
    /\ kg' = [kg EXCEPT
                 !.pc = "done", !.status = "returned", !.result = "context",
                 !.log = @ \o CallsAfterRun(BuildStatements(kg.mode,
                                                            kg.schema))]
    /\ UNCHANGED <<indexVars, prompt, rag, batch, extract>>

NextBuild ==
    \/ \E file \in FileKinds, schema \in SchemaTexts, mode \in BuildModes :
          BuildKgCall(file, schema, mode)
    \/ RunOperator
    \/ RunOperatorRaises
    \/ BuildKgReturn

SpecBuild == Init /\ [][NextBuild]_vars

\* ---------------------------------------------------- claims on build_kg

Happened(what) == \E i \in 1..Len(kg.log) : kg.log[i] = what

Effects ==
    <<Happened("build_vector_index"), Happened("clean_vector_index"),
      Happened("clean_hg_data"), Happened("commit_to_hugegraph")>>

EffectsOf(mode) ==
    CASE mode = "Test Mode" -> <<FALSE, FALSE, FALSE, FALSE>>
      [] mode = "Import Mode" -> <<TRUE, FALSE, FALSE, TRUE>>
      [] mode = "Clear and Import" -> <<TRUE, TRUE, TRUE, TRUE>>
      [] mode = "Rebuild Vector" -> <<TRUE, TRUE, FALSE, FALSE>>

Finished == kg.pc = "done" /\ kg.status = "returned" /\ Readable(kg.file)

\* C14: the side effects of a build that returns are decided by its mode
\* alone, whatever the schema given with a Rebuild Vector build or the
\* non-empty schema given with another: (index built, vector index cleared,
\* graph data cleared, graph committed) is (no, no, no, no) in Test Mode,
\* (yes, no, no, yes) in Import Mode, (yes, yes, yes, yes) in Clear and
\* Import and (yes, yes, no, no) in Rebuild Vector, and extraction runs in
\* every mode except Rebuild Vector, which fetches the graph data instead.
C14_ModeDecidesEffects ==
    (Finished /\ (kg.mode = "Rebuild Vector" \/ kg.schema # ""))
        => /\ Effects = EffectsOf(kg.mode)
           /\ Happened("extract_info") <=> kg.mode # "Rebuild Vector"
           /\ Happened("fetch_graph_data") <=> kg.mode = "Rebuild Vector"

IsClear(what) == what \in {"clean_vector_index", "clean_hg_data"}

Started == kg.pc \in {"running", "done"} /\ kg.registered # <<>>

\* C15: in Clear and Import mode build_kg has cleared the vector index and
\* the graph data before any extraction, index-add or graph-commit step
\* executes: both clearings are done when the builder starts to run, and
\* nothing the run has executed is followed by a clearing.
C15_ClearBeforeBuild ==
    (Started /\ kg.mode = "Clear and Import")
        => /\ Happened("clean_vector_index")
           /\ Happened("clean_hg_data")
           /\ \A i, j \in 1..Len(kg.log) :
                 (IsClear(kg.log[i]) /\ ~IsClear(kg.log[j])) => i < j

C15_Witness ==
    /\ kg.mode = "Clear and Import"
    /\ Finished
    /\ kg.result = "context"
    /\ Happened("extract_info")
    /\ Happened("build_vector_index")
    /\ Happened("commit_to_hugegraph")
    /\ Happened("clean_hg_data")

IsImportSchema(what) ==
    what \in {"import_schema(from_user_defined)",
              "import_schema(from_hugegraph)"}

\* C20: in Rebuild Vector mode build_kg neither requires nor imports a
\* schema: it goes on with an empty schema and registers no import_schema;
\* in the three other modes an empty schema makes it return
\* 'ERROR: please input schema.' before any clearing or build step.
C20_SchemaOnlyWhereNeeded ==
    (kg.pc # "idle" /\ Readable(kg.file))
        => /\ kg.mode = "Rebuild Vector" =>
                 /\ kg.result # SchemaError
                 /\ \A i \in 1..Len(kg.registered) :
                       ~IsImportSchema(kg.registered[i])
           /\ (kg.mode # "Rebuild Vector" /\ kg.schema = "") =>
                 /\ kg.status = "returned"
                 /\ kg.result = SchemaError
                 /\ kg.log = <<>>
                 /\ kg.registered = <<>>

\* --------------------------------------------------- several_rag_answer

\* The most question rows a spreadsheet has.
MaxRows == 2

\* The flags and prompt texts of a batch, passed on to every rag_answer call
\* (lines 213-224).
BatchRequest(question) ==
    [text |-> question,
     raw_answer |-> TRUE,
     vector_only_answer |-> TRUE,
     graph_only_answer |-> FALSE,
     graph_vector_answer |-> FALSE,
     answer_prompt |-> "p0",
     custom_related_information |-> "c0"]

\* What the run of one row's chain comes to.
BatchRunOutcomes ==
    {o \in RunOutcomes :
        /\ o.kind # "Exception"
        /\ o.kind = "ok" =>
              /\ o.context.switch_to_bleu = Absent
              /\ o.context.raw_answer # Absent}

\* pd.read_excel: one row per question, the answer columns not yet there.
NoCells == <<Absent, Absent, Absent, Absent>>

ReadExcel(questions) ==
    [i \in 1..Len(questions) |->
        [question |-> questions[i], answers |-> NoCells]]

\* A loop body that writes the vector-only and graph-only answers into each
\* other's column.
StoreAnswersSwapped(df, i, answers) ==
    [df EXCEPT ![i].answers =
        <<answers[1], answers[3], answers[2], answers[4]>>]

\* several_rag_answer, lines 225-228: df.at[index, column] = answer, for the
\* four answer columns.
StoreAnswers(df, i, answers) == [df EXCEPT ![i].answers = answers]

\* several_rag_answer, lines 209-210
BatchStart(questions) ==
    /\ batch.pc \in {"idle", "done"}
    /\ batch' = [pc |-> "rows", df |-> ReadExcel(questions), row |-> 1,
                 calls |-> <<>>, status |-> "none",
                 answers_file |-> batch.answers_file, written |-> FALSE]
    /\ UNCHANGED <<indexVars, prompt, rag, kg, extract>>

\* One turn of the loop, lines 211-229: rag_answer on the row's question,
\* whose chain comes to o.  When rag_answer raises, the exception leaves
\* several_rag_answer and takes the data frame, a local, with it.
BatchRow(o) ==
    /\ batch.pc = "rows"
    /\ batch.row <= Len(batch.df)
    /\ LET a == BatchRequest(batch.df[batch.row].question)
           out == RagAnswerOutcome(prompt, a, o)
           call == [question |-> a.text, status |-> out.status,
                    result |-> out.result]
       IN  /\ prompt' = UpdatePrompt(prompt, a)
           /\ batch' =
                IF out.status = "returned"
                THEN [batch EXCEPT
                         !.df = StoreAnswers(@, batch.row, out.result),
                         !.row = @ + 1,
                         !.calls = Append(@, call)]
                ELSE [batch EXCEPT
                         !.pc = "done", !.status = "raised", !.df = <<>>,
                         !.calls = Append(@, call)]
    /\ UNCHANGED <<indexVars, rag, kg, extract>>

\* several_rag_answer, lines 230-232: df.to_excel(answers_path) and return.
BatchFinish ==
    /\ batch.pc = "rows"
    /\ batch.row > Len(batch.df)
    /\ batch' = [batch EXCEPT !.pc = "done", !.status = "returned",
                              !.answers_file = batch.df, !.written = TRUE]
    /\ UNCHANGED <<indexVars, prompt, rag, kg, extract>>

NextBatch ==
    \/ \E questions \in SeqsUpTo(Texts, MaxRows) : BatchStart(questions)
    \/ \E o \in BatchRunOutcomes : BatchRow(o)
    \/ BatchFinish

SpecBatch == Init /\ [][NextBatch]_vars

\* ------------------------------------------ claims on several_rag_answer

\* A turn of the loop that returns, and the end of the loop.
RowDone == batch.pc = "rows" /\ batch'.pc = "rows" /\ batch'.row = batch.row + 1

LoopDone == batch.pc = "rows" /\ batch'.pc = "done" /\ batch'.status = "returned"

\* Row i is invoked i-th, on its own question, and holds what the call gave.
RowsInOrder(b) ==
    /\ Len(b.calls) = b.row - 1
    /\ \A i \in 1..Len(b.calls) :
          /\ b.calls[i].question = b.df[i].question
          /\ b.calls[i].status = "returned"
          /\ b.df[i].answers = b.calls[i].result
    /\ \A i \in b.row..Len(b.df) : b.df[i].answers = NoCells

OneCallPerRow ==
    /\ RowDone => RowsInOrder(batch')
    /\ LoopDone =>
          /\ Len(batch.calls) = Len(batch.df)
          /\ RowsInOrder(batch)
          /\ batch'.answers_file = batch.df

C17_AnswersKept ==
    batch.status = "raised"
        => /\ batch.pc = "done"
           /\ \A i \in 1..(Len(batch.calls) - 1) :
                 /\ i <= Len(batch.answers_file)
                 /\ batch.answers_file[i].question = batch.calls[i].question
                 /\ batch.answers_file[i].answers = batch.calls[i].result

\* ------------------------------------------------------------ InfoExtract

\* _filter_long_name keeps the ids with len(id) < 120.
NameLimit == 120

\* The most chunks split_text gives for a text.
MaxChunks == 2

\* Strings are sequences of characters, so that an id has a length.
Chars(c, n) == [i \in 1..n |-> c]

RECURSIVE lstrip(_)
lstrip(str) ==
    IF str # <<>> /\ Head(str) = " " THEN lstrip(Tail(str)) ELSE str

RECURSIVE rstrip(_)
rstrip(str) ==
    IF str # <<>> /\ str[Len(str)] = " "
    THEN rstrip(SubSeq(str, 1, Len(str) - 1)) ELSE str

\* str.strip()
strip(str) == rstrip(lstrip(str))

\* Names an LLM output holds: a short one, the same with a blank before it,
\* one that makes an id of NameLimit - 1 characters under a label of one
\* character and of NameLimit under a label of two, and one of NameLimit.
NameA == <<"a">>

NameAPadded == <<" ", "a">>

NameLong == Chars("x", NameLimit - 3)

NameHuge == Chars("y", NameLimit)

LabelP == <<"P">>

LabelCo == <<"C", "o">>

LabelAt == <<"a", "t">>

PropAge == <<"a", "g", "e">>

Junk == <<"z", "z">>

\* A schema as run takes it: vertex labels with their properties, edge labels
\* with the labels of their ends.  No schema is None.
NoSchema == <<>>

PersonSchema ==
    [vertices |-> <<[vertex_label |-> LabelP, properties |-> {PropAge}],
                    [vertex_label |-> LabelCo, properties |-> {PropAge}]>>,
     edges |-> <<[edge_label |-> LabelAt, source_vertex_label |-> LabelP,
                  target_vertex_label |-> LabelCo]>>]

Schemas == {NoSchema, PersonSchema}

\* What re.findall gives on a chunk's LLM output under the pattern with a
\* label (line 61): tuples (s, p, o, label), here one or two to a chunk.
PropertyMatches ==
    {<<n, PropAge, <<"1">>, l>> :
        n \in {NameA, NameAPadded, NameLong}, l \in {LabelP, LabelCo}}

EdgeMatches ==
    {<<n, <<"r">>, o, LabelAt>> : n, o \in {NameA, NameLong, NameHuge}}

Matches == PropertyMatches \cup EdgeMatches \cup {<<NameA, Junk, NameA, Junk>>}

MatchOutputs ==
    {<<>>} \cup {<<m>> : m \in Matches}
        \cup {<<<<NameLong, <<"r">>, NameLong, LabelAt>>,
                <<NameA, PropAge, <<"1">>, LabelP>>>>,
              <<<<NameA, <<"r">>, NameHuge, LabelAt>>,
                <<NameA, <<"r">>, NameA, LabelAt>>>>}

\* What re.findall gives under the pattern without a label (line 55).
Triples ==
    {<<NameA, <<"r">>, NameA>>, <<NameAPadded, <<"r">>, NameLong>>,
     <<NameHuge, Junk, NameA>>}

TripleOutputs ==
    {<<>>} \cup {<<t>> : t \in Triples}
        \cup {<<<<NameA, <<"r">>, NameA>>, <<NameHuge, Junk, NameA>>>>}

\* extract_triples_by_regex, lines 53-56
extract_triples_by_regex(matches, triples) ==
    [triples EXCEPT !.triples = @ \o matches]

\* A dict from id to vertex, kept as the vertices in insertion order.
HasId(vertices, id) == \E i \in 1..Len(vertices) : vertices[i].id = id

Vertex(id, name, label, props) ==
    [id |-> id, name |-> name, label |-> label, properties |-> props]

Id(label, name) == label \o <<"-">> \o name

\* Lines 72-75: a new vertex with the property, or the property set on the
\* vertex that has the id.
SetProperty(vertices, id, name, label, p, o) ==
    IF HasId(vertices, id)
    THEN [i \in 1..Len(vertices) |->
             IF vertices[i].id = id
             THEN [vertices[i] EXCEPT !.properties = (p :> o) @@ @]
             ELSE vertices[i]]
    ELSE Append(vertices, Vertex(id, name, label, p :> o))

\* Lines 82-84 and 87-89: a vertex without properties, unless the id is there.
AddVertex(vertices, id, name, label) ==
    IF HasId(vertices, id) THEN vertices
    ELSE Append(vertices, Vertex(id, name, label, <<>>))

\* Lines 69-76: the first vertex of the schema with the label and the
\* property decides.
VertexLoop(schema, graph, s, p, o, label) ==
    IF \E i \in 1..Len(schema.vertices) :
          /\ schema.vertices[i].vertex_label = label
          /\ p \in schema.vertices[i].properties
    THEN [graph EXCEPT
             !.vertices = SetProperty(@, Id(label, s), s, label, p, o)]
    ELSE graph

\* Lines 77-91: the first edge of the schema with the label decides.
EdgeLoop(schema, graph, s, p, o, label) ==
    LET found == {i \in 1..Len(schema.edges) :
                     schema.edges[i].edge_label = label}
    IN  IF found = {} THEN graph
        ELSE LET edge == schema.edges[CHOOSE i \in found :
                                         \A j \in found : i <= j]
                 source_id == Id(edge.source_vertex_label, s)
                 target_id == Id(edge.target_vertex_label, o)
             IN  [graph EXCEPT
                     !.triples = Append(@, <<{s}, {p}, {o}>>),
                     !.vertices =
                         AddVertex(
                             AddVertex(@, source_id, s,
                                       edge.source_vertex_label),
                             target_id, o, edge.target_vertex_label),
                     !.edges =
                         Append(@, [start |-> source_id, end |-> target_id,
                                    type |-> label, properties |-> <<>>])]

\* Lines 65-91 for one match; a match of findall holds no None.
OneMatch(schema, graph, match) ==
    LET s == strip(match[1])
        p == strip(match[2])
        o == strip(match[3])
        label == strip(match[4])
    IN  EdgeLoop(schema, VertexLoop(schema, graph, s, p, o, label),
                 s, p, o, label)

\* extract_triples_by_regex_with_schema, lines 59-92
RECURSIVE extract_triples_by_regex_with_schema(_, _, _)
extract_triples_by_regex_with_schema(schema, matches, graph) ==
    IF matches = <<>> THEN graph
    ELSE extract_triples_by_regex_with_schema(
             schema, Tail(matches), OneMatch(schema, graph, Head(matches)))

ShortVertex(vertex) == Len(vertex.id) < NameLimit

ShortEdge(edge) == Len(edge.start) < NameLimit /\ Len(edge.end) < NameLimit

\* A filter that drops the long vertices and keeps every edge.
FilterVerticesOnly(graph) ==
    [graph EXCEPT !.vertices = SelectSeq(@, ShortVertex)]

\* _filter_long_name, lines 127-138; graph["vertices"] of a dict without
\* that key raises KeyError.
FilterRaises(graph) == "vertices" \notin DOMAIN graph

_filter_long_name(graph) ==
    [graph EXCEPT !.vertices = SelectSeq(@, ShortVertex),
                  !.edges = SelectSeq(@, ShortEdge)]

\* run, lines 107-110: the text is split into n chunks and the result starts
\* empty, with the graph's keys only when a schema is given.
EmptyResult(schema) ==
    IF schema # NoSchema
    THEN [triples |-> <<>>, vertices |-> <<>>, edges |-> <<>>,
          schema |-> schema]
    ELSE [triples |-> <<>>]

InfoExtractRun(schema, n) ==
    /\ extract.pc \in {"idle", "done"}
    /\ extract' = [pc |-> "chunks", schema |-> schema, chunks |-> n,
                   outputs |-> <<>>, result |-> EmptyResult(schema),
                   status |-> "none", error |-> ""]
    /\ UNCHANGED <<indexVars, prompt, rag, kg, batch>>

\* run, lines 111-117: one chunk, whose LLM output holds the matches.
ExtractChunk(matches) ==
    /\ extract.pc = "chunks"
    /\ Len(extract.outputs) < extract.chunks
    /\ extract' =
         [extract EXCEPT
             !.outputs = Append(@, matches),
             !.result =
                 IF extract.schema # NoSchema
                 THEN extract_triples_by_regex_with_schema(
                          extract.schema, matches, @)
                 ELSE extract_triples_by_regex(matches, @)]
    /\ UNCHANGED <<indexVars, prompt, rag, kg, batch>>

\* run, line 118
FilterAndReturn ==
    /\ extract.pc = "chunks"
    /\ Len(extract.outputs) = extract.chunks
    /\ extract' =
         IF FilterRaises(extract.result)
         THEN [extract EXCEPT !.pc = "done", !.status = "raised",
                              !.error = "KeyError: 'vertices'"]
         ELSE [extract EXCEPT !.pc = "done", !.status = "returned",
                              !.result = _filter_long_name(@)]
    /\ UNCHANGED <<indexVars, prompt, rag, kg, batch>>

NextExtract ==
    \/ \E schema \in Schemas, n \in 0..MaxChunks : InfoExtractRun(schema, n)
    \/ \E matches \in (IF extract.schema = NoSchema THEN TripleOutputs
                       ELSE MatchOutputs) : ExtractChunk(matches)
    \/ FilterAndReturn

SpecExtract == Init /\ [][NextExtract]_vars

\* --------------------------------------------------- claims on InfoExtract

RECURSIVE Concat(_)
Concat(seqs) == IF seqs = <<>> THEN <<>> ELSE Head(seqs) \o Concat(Tail(seqs))

\* C21: run without a schema returns a mapping whose 'triples' entry is the
\* concatenation, in chunk order, of the triples matched in each chunk's LLM
\* output, and it completes without error for every text, also one that
\* yields no triples.
C21_TriplesConcatenated ==
    (extract.pc = "done" /\ extract.schema = NoSchema)
        => /\ extract.status = "returned"
           /\ extract.result.triples = Concat(extract.outputs)

ReturnedGraph ==
    /\ extract.pc = "done"
    /\ extract.status = "returned"
    /\ extract.schema # NoSchema

\* C22: the graph run returns with a schema is well-formed and closed after
\* any number of chunks: no two vertices share an id, every vertex id and
\* every edge endpoint is shorter than 120 characters, and every edge starts
\* and ends at the id of a vertex of the returned vertex list.
C22_GraphClosed ==
    ReturnedGraph =>
        LET vertices == extract.result.vertices
            edges == extract.result.edges
            ids == {vertices[i].id : i \in 1..Len(vertices)}
        IN  /\ \A i, j \in 1..Len(vertices) :
                  vertices[i].id = vertices[j].id => i = j
            /\ \A id \in ids : Len(id) < 120
            /\ \A i \in 1..Len(edges) :
                  /\ Len(edges[i].start) < 120
                  /\ Len(edges[i].end) < 120
                  /\ edges[i].start \in ids
                  /\ edges[i].end \in ids

C22_Witness ==
    /\ ReturnedGraph
    /\ Len(extract.outputs) = 2
    /\ \E k \in 1..2 :
          extract.outputs[k] = <<<<NameA, <<"r">>, NameHuge, LabelAt>>,
                                 <<NameA, <<"r">>, NameA, LabelAt>>>>
    /\ Len(extract.result.triples) > Len(extract.result.edges)
    /\ Len(extract.result.edges) > 0

=============================================================================
